---- MODULE Spec2Model ----
(***************************************************************************)
(* A model of two parts of OpenQAOA:                                       *)
(*   - the AWS Braket backend adapter QAOAAWSQPUBackend (construction      *)
(*     against a cloud device object, get_counts and its job loop);        *)
(*   - the BinPacking problem class (solution dictionary, constraint       *)
(*     bookkeeping, QUBO conversion call, penalty tuning).                 *)
(* Python values are encoded as follows: the three-valued connection flags *)
(* True / False / None are the strings "True", "False", "None"; a          *)
(* bitstring is a sequence of 0/1; a counts dictionary is a function from  *)
(* bitstrings to naturals; a raised exception is a record field naming the *)
(* exception class.                                                        *)
(***************************************************************************)
EXTENDS Integers, Sequences, FiniteSets, TLC

VARIABLES device, backend, gc, bp, call

vars == <<device, backend, gc, bp, call>>

(***************************************************************************)
(* Bounds of the model.                                                    *)
(***************************************************************************)
\* number of job submissions whose outcome the environment fixes in advance
MaxJobs == 6
\* largest number of items / bins / item weight / bin capacity of an instance
MaxItems == 2
MaxBins == 2
MaxWeight == 2
MaxCap == 2
\* number of calls made on one instance after its construction
MaxCalls == 3

(***************************************************************************)
(* Part 1: cloud devices and the Braket backend.                           *)
(***************************************************************************)

\* device names: none given, a QPU the provider lists, a QPU it does not list
DeviceNames == {"", "available_qpu", "random_invalid_backend"}

AvailableQpus == {"available_qpu"}

\* a bitstring-to-count dictionary without entries
NoCounts == [b \in {} |-> 0]

\* measurement results a completed job can report
CountsA == (<<0, 1>> :> 2) @@ (<<1, 1>> :> 1)
CountsB == (<<1, 0>> :> 3)
CountsSet == {CountsA, CountsB}

\* job.result() of a job that did not complete has no measurement_counts
Failed == [ok |-> FALSE, counts |-> NoCounts]
Completed(c) == [ok |-> TRUE, counts |-> c]
JobOutcomes == {Failed} \cup {Completed(c) : c \in CountsSet}

\* variational parameters handed to get_counts, and shot numbers
ParamsSet == {"params1", "params2"}
ShotsSet == {10, 100}

Reverse(s) == [i \in 1..Len(s) |-> s[Len(s) + 1 - i]]

\* utilities.flip_counts: the same counts with every bitstring reversed
flip_counts(c) ==
    [b \in {Reverse(k) : k \in DOMAIN c} |-> c[Reverse(b)]]

\* A device object as its constructor leaves it: nothing checked yet.
NewDevice(kind, name, credsOk, bucket) ==
    [kind |-> kind, device_name |-> name, creds_ok |-> credsOk,
     s3_bucket_name |-> bucket, folder_name |-> "folder",
     provider_connected |-> "None", qpu_connected |-> "None",
     returned |-> "None"]

\* A check_connection that reports a missing device name as a failed QPU
\* connection.
check_connection_no_name_fails(d) ==
    IF ~d.creds_ok
    THEN [d EXCEPT !.provider_connected = "False", !.returned = "False"]
    ELSE IF d.device_name \in AvailableQpus
    THEN [d EXCEPT !.provider_connected = "True", !.qpu_connected = "True",
                   !.returned = "True"]
    ELSE [d EXCEPT !.provider_connected = "True", !.qpu_connected = "False",
                   !.returned = "False"]

\* Device.check_connection: the flags and the value returned.
check_connection(d) ==
    IF ~d.creds_ok
    THEN [d EXCEPT !.provider_connected = "False", !.returned = "False"]
    ELSE IF d.device_name = ""
    THEN [d EXCEPT !.provider_connected = "True", !.returned = "True"]
    ELSE IF d.device_name \in AvailableQpus
    THEN [d EXCEPT !.provider_connected = "True", !.qpu_connected = "True",
                   !.returned = "True"]
    ELSE [d EXCEPT !.provider_connected = "True", !.qpu_connected = "False",
                   !.returned = "False"]

\* Python truthiness of a connection flag
Truthy(flag) == flag = "True"

\* no backend object yet; device_at_init is the device as __init__ saw it
\* and init_args the other inputs of that call
NoBackend ==
    [state |-> "none", exc |-> "none", backend_qpu |-> "unset",
     parametric_circuit |-> "unset", n_shots |-> 0,
     device_at_init |-> NewDevice("aws", "", FALSE, "bucket1"),
     init_args |-> [n_qubits |-> 0, prepend_qubits |-> 0,
                    base_returns |-> TRUE, circuit_call_returns |-> TRUE]]

\* What the code outside this class does during construction: whether the
\* base-class constructors of lines 65-72 return, and whether the call of
\* line 89 on the Circuit that the property parametric_qaoa_circuit returns
\* comes back (a Circuit is callable in some releases of the SDK only).
ConstructionEnvs == [base_returns : BOOLEAN, circuit_call_returns : BOOLEAN]

\* A constructor that turns away only a QPU connection known to have
\* failed (qpu_connected False), and so accepts an unchecked one (None).
BackendInitAcceptsUnchecked(d, nShots, nQubits, prependQubits, env) ==
    LET args == [n_qubits |-> nQubits, prepend_qubits |-> prependQubits,
                 base_returns |-> env.base_returns,
                 circuit_call_returns |-> env.circuit_call_returns]
        raised(exc) == [NoBackend EXCEPT !.state = "raised", !.exc = exc,
                            !.n_shots = nShots, !.device_at_init = d,
                            !.init_args = args]
    IN  IF ~env.base_returns
        THEN raised("base_init_exception")
        ELSE IF prependQubits > 0 /\ ~(nQubits >= prependQubits)
        THEN raised("AssertionError")
        ELSE IF Truthy(d.provider_connected) /\ d.qpu_connected # "False"
        THEN IF env.circuit_call_returns
             THEN [state |-> "ok", exc |-> "none",
                   backend_qpu |-> d.device_name,
                   parametric_circuit |-> "built", n_shots |-> nShots,
                   device_at_init |-> d, init_args |-> args]
             ELSE [raised("circuit_call_exception")
                       EXCEPT !.backend_qpu = d.device_name]
        ELSE IF Truthy(d.provider_connected)
        THEN raised("Connection to AWS was made. Error connecting to the specified backend.")
        ELSE raised("Error connecting to AWS.")

\* QAOAAWSQPUBackend.__init__ on device d: the object's fields and the
\* exception raised, if any.  nQubits is the size of the QAOA register and
\* prependQubits that of the prepended circuit (0: no prepend_state).
\* Lines 65-72 run the base-class constructors, which may raise before any
\* field of this class is written; line 78 asserts the size of the
\* prepended circuit; lines 81-87 read the two flags; line 89 calls the
\* circuit that the property returns, after backend_qpu has been set.
BackendInit(d, nShots, nQubits, prependQubits, env) ==
    LET args == [n_qubits |-> nQubits, prepend_qubits |-> prependQubits,
                 base_returns |-> env.base_returns,
                 circuit_call_returns |-> env.circuit_call_returns]
        raised(exc) == [NoBackend EXCEPT !.state = "raised", !.exc = exc,
                            !.n_shots = nShots, !.device_at_init = d,
                            !.init_args = args]
    IN  IF ~env.base_returns
        THEN raised("base_init_exception")
        ELSE IF prependQubits > 0 /\ ~(nQubits >= prependQubits)
        THEN raised("AssertionError")
        ELSE IF Truthy(d.provider_connected) /\ Truthy(d.qpu_connected)
        THEN IF env.circuit_call_returns
             THEN [state |-> "ok", exc |-> "none",
                   backend_qpu |-> d.device_name,
                   parametric_circuit |-> "built", n_shots |-> nShots,
                   device_at_init |-> d, init_args |-> args]
             ELSE [raised("circuit_call_exception")
                       EXCEPT !.backend_qpu = d.device_name]
        ELSE IF Truthy(d.provider_connected)
                /\ d.qpu_connected \in {"False", "None"}
        THEN raised("Connection to AWS was made. Error connecting to the specified backend.")
        ELSE raised("Error connecting to AWS.")

\* qaoa_circuit: the parametric circuit bound to the angles of params
qaoa_circuit(params) == [bound_to |-> params]

\* backend_qpu.run(circuit, (bucket, folder), shots = n_shots)
Job(circuit, d, nShots) ==
    [circuit |-> circuit, s3 |-> <<d.s3_bucket_name, d.folder_name>>,
     shots |-> nShots]

max_job_retries == 5

NoCall ==
    [called |-> FALSE, params |-> "none", outcomes |-> <<>>, jobs |-> <<>>,
     no_of_job_retries |-> 0, exc |-> "none", returned |-> NoCounts,
     measurement_outcomes |-> NoCounts, outcomes_set |-> FALSE]

\* The locals of get_counts on entry to its while loop
LoopEntry ==
    [jobs |-> <<>>, job_state |-> FALSE, no_of_job_retries |-> 0,
     bound |-> FALSE, counts |-> NoCounts, exc |-> "none"]

\* The except AttributeError branch of the loop body: the retry is counted
\* and the loop is left by break.
ExceptBranch(st) ==
    [st EXCEPT !.no_of_job_retries = st.no_of_job_retries + 1]

\* The while loop of get_counts from locals st: while job_state == False a
\* job is submitted and its result read.  outs[k] is the outcome of the
\* k-th job submitted; bound says whether the local counts was assigned.
RECURSIVE JobLoop(_, _, _, _, _)
JobLoop(st, outs, circuit, d, nShots) ==
    IF st.job_state
    THEN st
    ELSE LET sent == Append(st.jobs, Job(circuit, d, nShots))
             out  == outs[Len(sent)]
             run  == [st EXCEPT !.jobs = sent]
         IN  IF out.ok
             THEN LET got == [run EXCEPT !.counts = out.counts,
                                         !.bound = TRUE, !.job_state = TRUE]
                  IN  IF got.no_of_job_retries >= max_job_retries
                      THEN [got EXCEPT !.exc = "ConnectionError"]
                      ELSE JobLoop(got, outs, circuit, d, nShots)
             ELSE ExceptBranch(run)

\* Exposing the counts with the bit order flipped
ExposeFlipped(counts) == flip_counts(counts)

\* What get_counts exposes of the counts it read (no bit-order flip)
Expose(counts) == counts

\* QAOAAWSQPUBackend.get_counts(params) as a whole; prev is the record of
\* the previous call (measurement_outcomes survives a call that raises).
\* The record keeps the jobs submitted and the outcome of each of them.
get_counts(prev, b, d, params, outs) ==
    LET loop == JobLoop(LoopEntry, outs, qaoa_circuit(params), d, b.n_shots)
        base == [NoCall EXCEPT !.called = TRUE, !.params = params,
                    !.outcomes = SubSeq(outs, 1, Len(loop.jobs)),
                    !.jobs = loop.jobs,
                    !.no_of_job_retries = loop.no_of_job_retries,
                    !.measurement_outcomes = prev.measurement_outcomes,
                    !.outcomes_set = prev.outcomes_set]
    IN  IF loop.exc # "none"
        THEN [base EXCEPT !.exc = loop.exc]
        ELSE IF ~loop.bound
        THEN \* self.measurement_outcomes = counts reads an unassigned local
             [base EXCEPT !.exc = "UnboundLocalError"]
        ELSE [base EXCEPT !.returned = Expose(loop.counts),
                          !.measurement_outcomes = Expose(loop.counts),
                          !.outcomes_set = TRUE]


(***************************************************************************)
(* Part 2: the BinPacking problem class.                                   *)
(* A Python dict is a sequence of entries [k, v] in insertion order.  The  *)
(* variable y_j has key <<"y", j>> and x_i_j has key <<"x", i, j>>; the    *)
(* constraint entries eq_i and ineq_j have keys <<"eq", i>>, <<"ineq", j>>.*)
(***************************************************************************)

\* Python's None where a number is expected otherwise
None == -1

EmptyDict == <<>>

DictHas(d, k) == \E n \in 1..Len(d) : d[n].k = k

DictGet(d, k) == d[CHOOSE n \in 1..Len(d) : d[n].k = k].v

\* d[k] = v: an existing key keeps its place, a new one goes last
DictSet(d, k, v) ==
    IF DictHas(d, k)
    THEN [n \in 1..Len(d) |-> IF d[n].k = k THEN [k |-> k, v |-> v] ELSE d[n]]
    ELSE Append(d, [k |-> k, v |-> v])

DictKeys(d) == [n \in 1..Len(d) |-> d[n].k]

\* d[k] = v for every k of the sequence ks, in order
RECURSIVE DictSetAll(_, _, _)
DictSetAll(d, ks, v) ==
    IF ks = <<>> THEN d
    ELSE DictSetAll(DictSet(d, Head(ks), v), Tail(ks), v)

RECURSIVE SumSeq(_)
SumSeq(s) == IF s = <<>> THEN 0 ELSE Head(s) + SumSeq(Tail(s))

\* int(np.ceil(a / b)) for a >= 0, b >= 1
CeilDiv(a, b) == (a + b - 1) \div b

YKey(j) == <<"y", j>>
XKey(i, j) == <<"x", i, j>>

\* y_0 .. y_{n_bins-1}
YKeys(n_bins) == [n \in 1..n_bins |-> YKey(n - 1)]

\* x_i_j for i in range(n_items), j in range(n_bins), i outermost
XKeys(n_items, n_bins) ==
    [n \in 1..(n_items * n_bins) |->
        XKey((n - 1) \div n_bins, (n - 1) % n_bins)]

\* the bins fixed open by the first simplification
FixedBins(n_bins, min_bins) ==
    SelectSeq(YKeys(n_bins), LAMBDA k : k[2] < min_bins)

\* Item 0 excluded from every bin, bin 0 included
ItemZeroEverywhere(n_bins) == [n \in 1..n_bins |-> XKey(0, n - 1)]

\* x_0_j for j in range(1, n_bins)
ItemZeroElsewhere(n_bins) == [n \in 1..(n_bins - 1) |-> XKey(0, n)]

\* self.min_bins as solution_dict computes it
MinBins(weights, weight_capacity) == CeilDiv(SumSeq(weights), weight_capacity)

\* the exception of int(np.ceil(np.sum(self.weights) / self.weight_capacity))
\* in solution_dict: np.sum gives a numpy number, whose division by zero is
\* inf (nan for a zero sum) with a warning, and int() of that raises
solution_dict_exc(self) ==
    IF self.simplifications /\ self.weight_capacity = 0
    THEN IF SumSeq(self.weights) = 0 THEN "ValueError" ELSE "OverflowError"
    ELSE "none"

\* the dictionary BinPacking.solution_dict returns where it raises nothing
solution_dict(self) ==
    LET free == DictSetAll(DictSetAll(EmptyDict, YKeys(self.n_bins), None),
                           XKeys(self.n_items, self.n_bins), None)
    IN  IF self.simplifications
        THEN LET min_bins == MinBins(self.weights, self.weight_capacity)
                 opened   == DictSetAll(free, FixedBins(self.n_bins, min_bins), 1)
                 first    == DictSet(opened, XKey(0, 0), 1)
             IN  DictSetAll(first, ItemZeroElsewhere(self.n_bins), 0)
        ELSE free

\* the names of the binary variables of the model, in creation order
BinaryVars(solution) ==
    DictKeys(SelectSeq(solution, LAMBDA e : e.v = None))

\* self.vars_pos[name]
VarPos(binary_vars, name) ==
    (CHOOSE n \in 1..Len(binary_vars) : binary_vars[n] = name) - 1

\* range(1, n_items) with simplifications, range(n_items) without
ListItems(self) ==
    IF self.simplifications
    THEN [n \in 1..(self.n_items - 1) |-> n]
    ELSE [n \in 1..self.n_items |-> n - 1]

\* the entry docplex_model stores for item i
EqConstraint(self, binary_vars, i) ==
    [idx |-> [n \in 1..self.n_bins |-> VarPos(binary_vars, XKey(i, n - 1))],
     rhs |-> <<1>>]

\* An entry for bin 0 that forgets the weight of item 0, fixed in that bin
IneqConstraintFullBinZero(self, binary_vars, j) ==
    LET items == ListItems(self)
        idx   == [n \in 1..Len(items) |-> VarPos(binary_vars, XKey(items[n], j))]
    IN  IF self.simplifications /\ j < self.min_bins
        THEN [idx |-> idx, rhs |-> <<self.weight_capacity>>]
        ELSE [idx |-> idx, rhs |-> <<VarPos(binary_vars, YKey(j))>>]

\* the exception of reading self.min_bins where simplifications are on:
\* the attribute is created by solution_dict alone, and an instance on
\* which no call of it got that far has none
MinBinsExc(self) ==
    IF self.simplifications /\ self.min_bins = None
    THEN "AttributeError" ELSE "none"

\* the entry docplex_model stores for bin j, once the test of line 131 has
\* read self.min_bins (see MinBinsExc and AddIneq)
IneqConstraint(self, binary_vars, j) ==
    LET items == ListItems(self)
        idx   == [n \in 1..Len(items) |-> VarPos(binary_vars, XKey(items[n], j))]
    IN  IF self.simplifications /\ j < self.min_bins
        THEN IF j = 0
             THEN [idx |-> idx, rhs |-> <<self.weight_capacity - self.weights[1]>>]
             ELSE [idx |-> idx, rhs |-> <<self.weight_capacity>>]
        ELSE [idx |-> idx, rhs |-> <<VarPos(binary_vars, YKey(j))>>]

\* name in self.vars_pos
HasVar(binary_vars, name) == \E n \in 1..Len(binary_vars) : binary_vars[n] = name

\* range(n)
Range(n) == [m \in 1..n |-> m - 1]

\* the lookups self.vars_pos[x_i_j] of the entry for item i all succeed
EqReady(self, binary_vars, i) ==
    \A j \in 0..(self.n_bins - 1) : HasVar(binary_vars, XKey(i, j))

\* the first loop of docplex_model over the items left: the dictionary
\* written so far and the KeyError of the first missing variable
RECURSIVE AddEq(_, _, _, _)
AddEq(d, self, binary_vars, items) ==
    IF items = <<>> THEN [d |-> d, exc |-> "none"]
    ELSE IF ~EqReady(self, binary_vars, Head(items))
    THEN [d |-> d, exc |-> "KeyError"]
    ELSE AddEq(DictSet(d, <<"eq", Head(items)>>,
                       EqConstraint(self, binary_vars, Head(items))),
               self, binary_vars, Tail(items))

\* the exception of the weight constraint of bin j handed to the docplex
\* model: item by item the sum reads self.weights[i], divides it by
\* self.weight_capacity and reads vars_[x_i_j]; vars_[y_j] is read last.
\* Dividing a Python int by zero raises; a weight drawn by numpy is a numpy
\* integer, whose division by zero gives inf with a warning.
RECURSIVE WeightConstraintExc(_, _, _)
WeightConstraintExc(self, j, i) ==
    IF i >= self.n_items
    THEN IF DictHas(self.solution, YKey(j)) THEN "none" ELSE "KeyError"
    ELSE IF i >= Len(self.weights) THEN "IndexError"
    ELSE IF self.weight_capacity = 0 /\ ~self.np_weights THEN "ZeroDivisionError"
    ELSE IF ~DictHas(self.solution, XKey(i, j)) THEN "KeyError"
    ELSE WeightConstraintExc(self, j, i + 1)

\* the lookups in self.vars_pos of the entry for bin j all succeed, the
\* test of line 131 having read self.min_bins
IneqReady(self, binary_vars, j) ==
    /\ \A n \in 1..Len(ListItems(self)) :
          HasVar(binary_vars, XKey(ListItems(self)[n], j))
    /\ (self.simplifications /\ j < self.min_bins)
          \/ HasVar(binary_vars, YKey(j))

\* the second loop of docplex_model over the bins left: for each bin the
\* weight constraint, then the test of line 131, which reads self.min_bins
\* when simplifications are on, then the lookups of the entry
RECURSIVE AddIneq(_, _, _, _)
AddIneq(d, self, binary_vars, bins) ==
    IF bins = <<>> THEN [d |-> d, exc |-> "none"]
    ELSE IF WeightConstraintExc(self, Head(bins), 0) # "none"
    THEN [d |-> d, exc |-> WeightConstraintExc(self, Head(bins), 0)]
    ELSE IF MinBinsExc(self) # "none"
    THEN [d |-> d, exc |-> MinBinsExc(self)]
    ELSE IF ~IneqReady(self, binary_vars, Head(bins))
    THEN [d |-> d, exc |-> "KeyError"]
    ELSE AddIneq(DictSet(d, <<"ineq", Head(bins)>>,
                         IneqConstraint(self, binary_vars, Head(bins))),
                 self, binary_vars, Tail(bins))

\* BinPacking.docplex_model: the instance it leaves (vars_pos and the two
\* constraint dictionaries as far as they were written) and the exception
\* it raises; an instance without self.solution raises AttributeError
\* before anything is written.  The docplex model it returns is kept as the
\* names of its binary variables, which are the keys of vars_pos.
docplex_model(self) ==
    LET binary_vars == BinaryVars(self.solution)
        eqs   == AddEq(self.eq_constraints, self, binary_vars, ListItems(self))
        ineqs == IF eqs.exc = "none"
                 THEN AddIneq(self.ineq_constraints, self, binary_vars,
                              Range(self.n_bins))
                 ELSE [d |-> self.ineq_constraints, exc |-> eqs.exc]
    IN  IF ~self.built THEN [self |-> self, exc |-> "AttributeError"]
        ELSE [self |-> [self EXCEPT !.vars_pos = binary_vars,
                                    !.eq_constraints = eqs.d,
                                    !.ineq_constraints = ineqs.d],
              exc |-> ineqs.exc]

\* self.cplex_model = self.docplex_model() and
\* self.n_vars = self.cplex_model.number_of_binary_variables
WithModel(self) ==
    LET r == docplex_model(self)
    IN  IF r.exc = "none"
        THEN [self |-> [r.self EXCEPT !.cplex_model = r.self.vars_pos,
                                      !.n_vars = Len(r.self.vars_pos)],
              exc |-> "none"]
        ELSE r

\* what a call of solution_dict leaves on the instance: self.min_bins,
\* unless the call raises
SetMinBins(self) ==
    IF self.simplifications /\ solution_dict_exc(self) = "none"
    THEN [self EXCEPT !.min_bins = MinBins(self.weights, self.weight_capacity)]
    ELSE self

\* self.solution = self.solution_dict()
WithSolution(self) ==
    IF solution_dict_exc(self) # "none"
    THEN [self |-> self, exc |-> solution_dict_exc(self)]
    ELSE [self |-> [SetMinBins(self) EXCEPT !.solution = solution_dict(self),
                                            !.built = TRUE],
          exc |-> "none"]

\* an argument left out of a call, and one given
NoArg == <<>>
Arg(v) == <<v>>

\* BinPacking.__init__: the instance and the exception the constructor
\* raises (no instance is handed out then); n_bins is NoArg or Arg(number)
BinPackingInit(weights, weight_capacity, penalty, n_bins, simplifications, method) ==
    LET self == [weights |-> weights, np_weights |-> FALSE,
                 weight_capacity |-> weight_capacity,
                 penalty |-> penalty, n_items |-> Len(weights),
                 method |-> method, simplifications |-> simplifications,
                 eq_constraints |-> EmptyDict, ineq_constraints |-> EmptyDict,
                 n_bins |-> IF n_bins = NoArg THEN Len(weights) ELSE n_bins[1],
                 built |-> FALSE, solution |-> EmptyDict, min_bins |-> None,
                 vars_pos |-> <<>>, cplex_model |-> <<>>, n_vars |-> None]
        filled == WithSolution(self)
    IN  IF Len(weights) = 0 THEN [self |-> self, exc |-> "none"]
        ELSE IF filled.exc # "none" THEN filled
        ELSE WithModel(filled.self)

\* the instance of a constructor call that raises nothing
BinPacking(weights, weight_capacity, penalty, n_bins, simplifications, method) ==
    BinPackingInit(weights, weight_capacity, penalty, n_bins, simplifications, method).self

\* the constructor calls that hand out an instance
Constructs(weights, weight_capacity, penalty, n_bins, simplifications, method) ==
    BinPackingInit(weights, weight_capacity, penalty, n_bins, simplifications, method).exc = "none"


\* the exception of vec = np.zeros(n_vars); vec[idx] = vals: numpy
\* broadcasts the values to the index list first (ValueError when their
\* number is neither one nor that of the positions) and then checks the
\* positions against the length of vec (IndexError)
VecAssignExc(n_vars, idx, vals) ==
    IF Len(vals) # Len(idx) /\ Len(vals) # 1 THEN "ValueError"
    ELSE IF \E n \in 1..Len(idx) : idx[n] >= n_vars THEN "IndexError"
    ELSE "none"

\* vec = np.zeros(n_vars); vec[idx] = vals where that raises nothing, as a
\* function on positions 0 .. n_vars-1; a single value goes to every
\* position of idx
VecAssign(n_vars, idx, vals) ==
    [p \in 0..(n_vars - 1) |->
        IF \E n \in 1..Len(idx) : idx[n] = p
        THEN vals[IF Len(vals) = Len(idx)
                  THEN CHOOSE n \in 1..Len(idx) :
                         idx[n] = p /\ \A m \in (n + 1)..Len(idx) : idx[m] # p
                  ELSE 1]
        ELSE 0]

RECURSIVE SumUpTo(_, _, _)
\* sum of vec[p] * int(solution[p]) over positions p < n
SumUpTo(vec, bits, n) ==
    IF n = 0 THEN 0
    ELSE vec[n - 1] * bits[n] + SumUpTo(vec, bits, n - 1)

\* the exception of vec * np.array([int(i) for i in solution]): the two
\* lengths must agree unless one of them is one
LhExc(n_vars, bits) ==
    IF Len(bits) = n_vars \/ Len(bits) = 1 \/ n_vars = 1
    THEN "none" ELSE "ValueError"

Ones(n) == [m \in 1..n |-> 1]

\* np.sum(vec * np.array([int(i) for i in solution])) where the product
\* raises nothing; a vector of one entry multiplies every entry of the other
Lh(vec, bits) ==
    LET n == Cardinality(DOMAIN vec)
    IN  IF Len(bits) = n THEN SumUpTo(vec, bits, n)
        ELSE IF Len(bits) = 1 THEN bits[1] * SumUpTo(vec, Ones(n), n)
        ELSE vec[0] * SumSeq(bits)

\* the exception of np.zeros(self.n_vars): the attribute is created by the
\* constructor of an instance with weights and by random_instance, after
\* the model is built, and an instance on which neither got that far has
\* none
NVarsExc(self) == IF self.n_vars = None THEN "AttributeError" ELSE "none"

\* what a loop of constraints_not_fulfilled leaves when it raises
Raised(exc) == [exc |-> exc, ret |-> None]

\* the first loop of constraints_not_fulfilled: the number of equality
\* constraints whose left-hand side differs from the stored right-hand
\* side, or the exception of the first entry that raises one
RECURSIVE EqViolations(_, _, _)
EqViolations(self, cs, bits) ==
    IF cs = <<>> THEN [exc |-> "none", ret |-> 0]
    ELSE LET c    == Head(cs).v
             vec  == VecAssign(self.n_vars, c.idx, <<1>>)
             rest == EqViolations(self, Tail(cs), bits)
         IN  IF NVarsExc(self) # "none"
             THEN Raised(NVarsExc(self))
             ELSE IF VecAssignExc(self.n_vars, c.idx, <<1>>) # "none"
             THEN Raised(VecAssignExc(self.n_vars, c.idx, <<1>>))
             ELSE IF LhExc(self.n_vars, bits) # "none"
             THEN Raised(LhExc(self.n_vars, bits))
             ELSE IF rest.exc # "none" THEN rest
             ELSE [exc |-> "none",
                   ret |-> rest.ret + (IF Lh(vec, bits) # c.rhs[1] THEN 1 ELSE 0)]

\* solution[p] for a bitstring: positions from 0, negative ones from the end
StrIndexExc(bits, p) ==
    IF p >= Len(bits) \/ p < 0 - Len(bits) THEN "IndexError" ELSE "none"

StrIndex(bits, p) == IF p >= 0 THEN bits[p + 1] ELSE bits[Len(bits) + p + 1]

\* the exception of the right-hand side of entry number ii (from 0): without
\* simplifications the bitstring is indexed with the list constraint[1],
\* which Python rejects with TypeError; with them the test of line 333
\* reads self.min_bins, AttributeError on an instance that has none
IneqRhsExc(self, c, ii, bits) ==
    IF ~self.simplifications THEN "TypeError"
    ELSE IF MinBinsExc(self) # "none" THEN MinBinsExc(self)
    ELSE IF ii < self.min_bins THEN "none"
    ELSE StrIndexExc(bits, c.rhs[1])

\* the right-hand side the second loop uses for entry number ii (from 0)
\* when simplifications are on and self.min_bins exists (see IneqRhsExc)
IneqRhs(self, c, ii, bits) ==
    IF ii < self.min_bins
    THEN c.rhs[1]
    ELSE self.weight_capacity * StrIndex(bits, c.rhs[1])

\* the weights the second loop assigns
LoopWeights(self) ==
    IF self.simplifications /\ self.weights # <<>>
    THEN Tail(self.weights) ELSE self.weights

\* the second loop, from entry number ii on: the number of inequality
\* constraints whose left-hand side exceeds the right-hand side, or the
\* exception of the first entry that raises one.  An entry creates vec
\* from self.n_vars, computes the right-hand side (reading self.min_bins
\* when simplifications are on), assigns the weights and sums.
RECURSIVE IneqViolations(_, _, _, _)
IneqViolations(self, cs, ii, bits) ==
    IF cs = <<>> THEN [exc |-> "none", ret |-> 0]
    ELSE LET c    == Head(cs).v
             vec  == VecAssign(self.n_vars, c.idx, LoopWeights(self))
             rest == IneqViolations(self, Tail(cs), ii + 1, bits)
         IN  IF NVarsExc(self) # "none"
             THEN Raised(NVarsExc(self))
             ELSE IF IneqRhsExc(self, c, ii, bits) # "none"
             THEN Raised(IneqRhsExc(self, c, ii, bits))
             ELSE IF VecAssignExc(self.n_vars, c.idx, LoopWeights(self)) # "none"
             THEN Raised(VecAssignExc(self.n_vars, c.idx, LoopWeights(self)))
             ELSE IF LhExc(self.n_vars, bits) # "none"
             THEN Raised(LhExc(self.n_vars, bits))
             ELSE IF rest.exc # "none" THEN rest
             ELSE [exc |-> "none",
                   ret |-> rest.ret + (IF Lh(vec, bits) > IneqRhs(self, c, ii, bits)
                                       THEN 1 ELSE 0)]

\* BinPacking.constraints_not_fulfilled(solution) for a bitstring
constraints_not_fulfilled(self, bits) ==
    LET eqs   == EqViolations(self, self.eq_constraints, bits)
        ineqs == IneqViolations(self, self.ineq_constraints, 0, bits)
    IN  IF eqs.exc # "none" THEN eqs
        ELSE IF ineqs.exc # "none" THEN ineqs
        ELSE [exc |-> "none", ret |-> eqs.ret + ineqs.ret]

(***************************************************************************)
(* The QUBO conversion call.  An argument of the converter is a record     *)
(* [kind, val]: kind "default" for an argument the call leaves out, "list" *)
(* for a list and "scalar" for a single number (val = <<number>>).         *)
(***************************************************************************)
Default == [kind |-> "default", val |-> <<>>]
ListArg(l) == [kind |-> "list", val |-> l]
Scalar(x) == [kind |-> "scalar", val |-> <<x>>]

NoQubo ==
    [model |-> <<>>, multipliers |-> Default, unbalanced_const |-> FALSE,
     strength_ineq |-> Default]

\* FromDocplex2IsingModel(model, multipliers, unbalanced_const,
\* strength_ineq).ising_model: the Ising model is identified with the call
\* that produces it (unbalanced_const defaults to False).
FromDocplex2IsingModel(model, multipliers, unbalanced_const, strength_ineq) ==
    [model |-> model, multipliers |-> multipliers,
     unbalanced_const |-> unbalanced_const, strength_ineq |-> strength_ineq]

\* A conversion call that hands the unbalanced encoding the whole penalty
\* list as multipliers
QuboCallWholePenalty(self) ==
    IF Len(self.penalty.val) > 0
    THEN IF self.method = "slack"
         THEN FromDocplex2IsingModel(self.cplex_model,
                  ListArg(self.penalty.val), FALSE, Default)
         ELSE FromDocplex2IsingModel(self.cplex_model,
                  ListArg(self.penalty.val), TRUE, Default)
    ELSE IF self.method = "slack"
         THEN FromDocplex2IsingModel(self.cplex_model, Default, FALSE, Default)
         ELSE FromDocplex2IsingModel(self.cplex_model, Default, TRUE, Default)

\* the branch of get_qubo_problem taken for a penalty that has a length
QuboCall(self) ==
    IF Len(self.penalty.val) > 0
    THEN IF self.method = "slack"
         THEN FromDocplex2IsingModel(self.cplex_model,
                  ListArg(self.penalty.val), FALSE, Default)
         ELSE FromDocplex2IsingModel(self.cplex_model,
                  Scalar(self.penalty.val[1]), TRUE,
                  ListArg(Tail(self.penalty.val)))
    ELSE IF self.method = "slack"
         THEN FromDocplex2IsingModel(self.cplex_model, Default, FALSE, Default)
         ELSE FromDocplex2IsingModel(self.cplex_model, Default, TRUE, Default)

\* BinPacking.get_qubo_problem
get_qubo_problem(self) ==
    IF self.penalty.kind = "float"
    THEN [exc |-> "TypeError", qubo |-> NoQubo]
    ELSE IF self.method \notin {"slack", "unbalanced"}
    THEN [exc |-> "UnboundLocalError", qubo |-> NoQubo]
    ELSE IF ~self.built
    THEN [exc |-> "AttributeError", qubo |-> NoQubo]
    ELSE [exc |-> "none", qubo |-> QuboCall(self)]


RECURSIVE MinSeq(_)
MinSeq(s) ==
    IF Len(s) = 1 THEN s[1]
    ELSE LET m == MinSeq(Tail(s)) IN IF s[1] < m THEN s[1] ELSE m

RECURSIVE MaxSeq(_)
MaxSeq(s) ==
    IF Len(s) = 1 THEN s[1]
    ELSE LET m == MaxSeq(Tail(s)) IN IF s[1] > m THEN s[1] ELSE m

\* the weights np.random.randint(min_weight, max_weight, n_items) can draw:
\* max_weight is excluded
RandomWeights(n_items, min_weight, max_weight) ==
    [1..n_items -> min_weight..(max_weight - 1)]

\* BinPacking.random_instance, drawn being the weights the generator draws.
\* The sizes are assigned before the weight range is checked, and the
\* generator refuses a negative number of weights.
random_instance(self, n_items, min_weight, max_weight, weight_capacity, simplification, drawn) ==
    LET sized  == [self EXCEPT !.weight_capacity = weight_capacity,
                               !.n_items = n_items, !.n_bins = n_items]
        drew   == [sized EXCEPT !.weights = drawn, !.np_weights = TRUE,
                                !.simplifications = simplification]
        filled == WithSolution(drew)
    IN  IF min_weight >= max_weight
        THEN [self |-> sized, exc |-> "ValueError"]
        ELSE IF n_items < 0
        THEN [self |-> sized, exc |-> "ValueError"]
        ELSE IF filled.exc # "none" THEN filled
        ELSE WithModel(filled.self)

\* BinPacking.classical_solution(string) for the three things
\* cplex_model.solve() can hand back: "none" (no solution object),
\* "invalid" (a solution that is_valid_solution() rejects) and "ok".  The
\* values of the free variables are read first and the validity is asked
\* afterwards; either on a missing solution object is an AttributeError.
\* ret is the kind of value returned: a bitstring or a copy of the
\* solution dictionary.
classical_solution(self, string, solved) ==
    IF solved = "none"
    THEN [exc |-> "AttributeError", ret |-> "none",
          at |-> IF self.n_vars > 0 THEN "get_value" ELSE "is_valid_solution"]
    ELSE IF solved = "invalid"
    THEN [exc |-> "ValueError", at |-> "is_valid_solution", ret |-> "none"]
    ELSE [exc |-> "none", at |-> "return",
          ret |-> IF string THEN "str" ELSE "dict"]

\* the weight range find_penalty_terms hands to random_instance, and the
\* exception its range check raises
WeightRange(weights) ==
    LET min_weight == MinSeq(weights)
        max_weight == MaxSeq(weights)
    IN  IF weights = <<>>
        THEN [min |-> 0, max |-> 0, exc |-> "ValueError"]
        ELSE IF min_weight = max_weight /\ max_weight > 1
        THEN IF max_weight > 1
             THEN [min |-> min_weight - 1, max |-> max_weight, exc |-> "none"]
             ELSE [min |-> min_weight, max |-> max_weight, exc |-> "ValueError"]
        ELSE [min |-> min_weight, max |-> max_weight, exc |-> "none"]

\* the number of terms the tuning objective get_penalty requires
TermsRequired(method) == IF method = "unbalanced" THEN 3 ELSE 1

\* the length of the vectors scipy's Nelder-Mead evaluates from x0 under
\* the three bounds pairs, 0 standing for the ValueError of a length scipy
\* rejects.  The installed scipy decides: one that ignores bounds for
\* Nelder-Mead keeps the length of x0, one that clips x0 against the bounds
\* broadcasts a single term to three, one that validates the bounds against
\* x0 accepts three terms only.
EvalLen(penalty0, scipy) ==
    IF scipy = "ignores_bounds" THEN Len(penalty0)
    ELSE IF scipy = "clips"
    THEN IF Len(penalty0) \in {1, 3} THEN 3 ELSE 0
    ELSE IF Len(penalty0) = 3 THEN 3 ELSE 0

\* get_penalty converting the first problem whatever the length of the vector
get_penalty_unchecked(method, n, n_mdls) ==
    IF n_mdls = 0 THEN "none"
    ELSE IF method \notin {"slack", "unbalanced"} THEN "UnboundLocalError"
    ELSE "none"

\* get_penalty on a vector of n terms over n_mdls tuning problems: the
\* exception it raises on the first problem, before building an Ising model
get_penalty(method, n, n_mdls) ==
    IF n_mdls = 0 THEN "none"
    ELSE IF method \notin {"slack", "unbalanced"} THEN "UnboundLocalError"
    ELSE IF n # TermsRequired(method) THEN "ValueError"
    ELSE "none"

\* what a find_penalty_terms call that stops before the minimiser leaves
Stopped(self, exc, at) ==
    [self |-> self, exc |-> exc, at |-> at, evaluated |-> 0,
     ising_built |-> FALSE]

\* the weights the generator can draw for a tuning problem of
\* find_penalty_terms, which hands it the weight range of the instance
TuningDraws(self, n_items) ==
    LET range == WeightRange(self.weights)
    IN  IF range.exc # "none" \/ range.min >= range.max
        THEN {<<>>}
        ELSE RandomWeights(n_items, range.min, range.max)

\* a tuning problem of find_penalty_terms, mdls[n_mdl] of lines 279-280:
\* BinPacking(method = self.method) followed by random_instance on the
\* weight range and the capacity of the instance, simplification left at
\* its default; the instance it leaves and the exception it raises
TuningProblem(self, n_items, drawn) ==
    random_instance(BinPacking(<<>>, 0, ListArg(<<>>), NoArg, TRUE, self.method),
                    n_items, WeightRange(self.weights).min,
                    WeightRange(self.weights).max, self.weight_capacity,
                    TRUE, drawn)

\* the tuning problems the generator can yield for the instance
TuningProblems(self, n_items) ==
    {TuningProblem(self, n_items, drawn) : drawn \in TuningDraws(self, n_items)}

\* BinPacking.find_penalty_terms(penalty0, n_items, n_mdls).  env holds
\* what the libraries decide: mdl (the tuning problem that decides the
\* call, one of TuningProblems(self, n_items): the first whose construction
\* raises, or else the first), solved (the solver's answer on the tuning
\* problems), scipy (see EvalLen) and x (the value of each term of the
\* minimiser's result).  evaluated is the length of the vectors get_penalty
\* was called on (0 when it was not called), ising_built whether an Ising
\* model was built from one.
find_penalty_terms(self, penalty0, n_items, n_mdls, env) ==
    LET range  == WeightRange(self.weights)
        n      == EvalLen(penalty0, env.scipy)
        solver == classical_solution(env.mdl.self, TRUE, env.solved).exc
    IN  IF range.exc # "none"
        THEN Stopped(self, range.exc, "range")
        ELSE IF n_mdls > 0 /\ env.mdl.exc # "none"
        THEN Stopped(self, env.mdl.exc, "random_instance")
        ELSE IF n_mdls > 0 /\ solver # "none"
        THEN Stopped(self, solver, "classical_solution")
        ELSE IF n = 0
        THEN Stopped(self, "ValueError", "minimize")
        ELSE IF get_penalty(self.method, n, n_mdls) # "none"
        THEN [self |-> self, exc |-> get_penalty(self.method, n, n_mdls),
              at |-> "get_penalty", evaluated |-> n, ising_built |-> FALSE]
        ELSE [self |-> [self EXCEPT !.penalty = ListArg([m \in 1..n |-> env.x])],
              exc |-> "none", at |-> "return", evaluated |-> n,
              ising_built |-> n_mdls > 0]


(***************************************************************************)
(* State machines.  device, backend and gc (the latest get_counts call)    *)
(* belong to the backend; bp is a BinPacking instance and call the latest  *)
(* method call on it.                                                      *)
(***************************************************************************)

IdleDevice == NewDevice("aws", "", FALSE, "bucket1")

\* BinPacking() with every argument left at its default
IdleBin == BinPacking(<<>>, 0, ListArg(<<>>), NoArg, TRUE, "slack")

NoBinCall ==
    [op |-> "none", exc |-> "none", at |-> "none", ret |-> None,
     qubo |-> NoQubo, bits |-> <<>>, n_mdls |-> 0,
     penalty_before |-> ListArg(<<>>), solved |-> "none", returned |-> "none",
     penalty0 |-> <<>>, evaluated |-> 0, ising_built |-> FALSE, calls |-> 0]

CheckConnection ==
    /\ device' = check_connection(device)
    /\ UNCHANGED <<backend, gc, bp, call>>

\* QAOAAWSQPUBackend(circuit_params, device, n_shots, prepend_state, ...)
Construct ==
    /\ device.kind = "aws"
    /\ \E nShots \in ShotsSet, nQubits \in 1..2, prependQubits \in 0..2,
          env \in ConstructionEnvs :
          backend' = BackendInit(device, nShots, nQubits, prependQubits, env)
    /\ gc' = NoCall
    /\ UNCHANGED <<device, bp, call>>

\* backend.get_counts(params), the environment deciding each job's outcome
GetCounts ==
    /\ backend.state = "ok"
    /\ \E params \in ParamsSet, outs \in [1..MaxJobs -> JobOutcomes] :
          gc' = get_counts(gc, backend, device, params, outs)
    /\ UNCHANGED <<device, backend, bp, call>>


InitBackend ==
    /\ device \in {NewDevice(kind, name, credsOk, bucket) :
                     kind \in {"aws", "qiskit"}, name \in DeviceNames,
                     credsOk \in BOOLEAN, bucket \in {"bucket1", "bucket2"}}
    /\ backend = NoBackend
    /\ gc = NoCall
    /\ bp = IdleBin
    /\ call = NoBinCall

NextBackend == CheckConnection \/ Construct \/ GetCounts

SpecBackend == InitBackend /\ [][NextBackend]_vars

\* the instances of the model: item weights, capacity and number of bins
WeightLists == UNION {[1..n -> 1..MaxWeight] : n \in 1..MaxItems}
Capacities == 1..MaxCap
BinNumbers == {NoArg} \cup {Arg(n) : n \in 1..MaxBins}

Methods == {"slack", "unbalanced", "other"}

\* penalties: lists of zero to three terms, and a single float
Penalties ==
    {ListArg(<<>>), ListArg(<<1>>), ListArg(<<2, 1>>), ListArg(<<1, 2, 2>>),
     [kind |-> "float", val |-> <<1>>]}

\* bp.get_qubo_problem()
GetQuboProblem ==
    /\ LET r == get_qubo_problem(bp)
       IN  call' = [NoBinCall EXCEPT !.op = "get_qubo_problem",
                        !.exc = r.exc, !.qubo = r.qubo,
                        !.penalty_before = bp.penalty]
    /\ UNCHANGED <<device, backend, gc, bp>>

\* bp.find_penalty_terms(penalty0, n_items, n_mdls).  With n_mdls = 0 no
\* tuning problem is built and the solver is not asked, so the environment
\* has nothing to decide there: env.mdl and env.solved are not read.
FindPenaltyTerms ==
    /\ \E n_items \in {1}, n_mdls \in {0, 3} :
       \E mdl \in IF n_mdls > 0 THEN TuningProblems(bp, n_items)
                  ELSE {TuningProblem(bp, 0, <<>>)},
          solved \in IF n_mdls > 0 THEN {"ok", "none", "invalid"} ELSE {"ok"} :
       \E penalty0 \in {<<1>>, <<1, 1>>, <<1, 1, 1>>},
          scipy \in {"ignores_bounds", "clips", "validates"}, x \in {2} :
          LET r == find_penalty_terms(bp, penalty0, n_items, n_mdls,
                       [mdl |-> mdl, solved |-> solved, scipy |-> scipy,
                        x |-> x])
          IN  /\ bp' = r.self
              /\ call' = [NoBinCall EXCEPT !.op = "find_penalty_terms",
                             !.exc = r.exc, !.at = r.at, !.n_mdls = n_mdls,
                             !.penalty_before = bp.penalty,
                             !.penalty0 = penalty0, !.evaluated = r.evaluated,
                             !.ising_built = r.ising_built]
    /\ UNCHANGED <<device, backend, gc>>

\* bp.classical_solution(string), solved being the solver's answer
ClassicalSolution ==
    /\ bp.built
    /\ \E string \in BOOLEAN, solved \in {"ok", "none", "invalid"} :
          LET r == classical_solution(bp, string, solved)
          IN  call' = [NoBinCall EXCEPT !.op = "classical_solution",
                          !.exc = r.exc, !.at = r.at, !.returned = r.ret,
                          !.solved = solved, !.penalty_before = bp.penalty]
    /\ UNCHANGED <<device, backend, gc, bp>>

InitBin ==
    /\ device = IdleDevice
    /\ backend = NoBackend
    /\ gc = NoCall
    /\ \E w \in WeightLists, p \in Penalties, s \in BOOLEAN, m \in Methods :
          /\ Constructs(w, MaxCap, p, NoArg, s, m)
          /\ bp = BinPacking(w, MaxCap, p, NoArg, s, m)
    /\ call = NoBinCall

NextBin == GetQuboProblem \/ FindPenaltyTerms \/ ClassicalSolution

SpecBin == InitBin /\ [][NextBin]_vars

\* bp.constraints_not_fulfilled(solution), solution being the bitstring
\* call.bits drawn with the instance
ConstraintsNotFulfilled ==
    /\ bp.built
    /\ call.op = "none"
    /\ LET r == constraints_not_fulfilled(bp, call.bits)
       IN  call' = [call EXCEPT !.op = "constraints_not_fulfilled",
                        !.exc = r.exc, !.ret = r.ret]
    /\ UNCHANGED <<device, backend, gc, bp>>

\* an instance and a bitstring of length n_vars to call the method with
InitCnf ==
    /\ device = IdleDevice
    /\ backend = NoBackend
    /\ gc = NoCall
    /\ \E w \in WeightLists, c \in Capacities, nb \in BinNumbers, s \in BOOLEAN :
          /\ Constructs(w, c, ListArg(<<>>), nb, s, "slack")
          /\ bp = BinPacking(w, c, ListArg(<<>>), nb, s, "slack")
    /\ call \in {[NoBinCall EXCEPT !.bits = bits] :
                    bits \in [1..bp.n_vars -> {0, 1}]}

NextCnf == ConstraintsNotFulfilled

SpecCnf == InitCnf /\ [][NextCnf]_vars

\* the weight bounds random_instance is called with; max_weight is excluded
\* from the draw
WeightBounds == 1..(MaxWeight + 1)

\* constraints_not_fulfilled leaves the instance as it was: a run is
\* followed up to its first count, every other call being possible from the
\* state before it, and for MaxCalls calls at most
Counted == call.op = "constraints_not_fulfilled" \/ call.calls >= MaxCalls

\* the capacities random_instance is called with: none at all and the
\* largest
RandomCapacities == {0, MaxCap}

\* bp.random_instance(n_items, min_weight, max_weight, weight_capacity,
\* simplification, seed), drawn being the weights the seed yields
RandomInstance ==
    /\ ~Counted
    /\ \E n_items \in 1..MaxItems, min_weight \in {1},
          max_weight \in WeightBounds, weight_capacity \in RandomCapacities,
          simplification \in BOOLEAN :
          \E drawn \in IF min_weight < max_weight
                       THEN RandomWeights(n_items, min_weight, max_weight)
                       ELSE {<<>>} :
             LET r == random_instance(bp, n_items, min_weight, max_weight,
                                      weight_capacity, simplification, drawn)
             IN  /\ bp' = r.self
                 /\ call' = [NoBinCall EXCEPT !.op = "random_instance",
                                !.exc = r.exc, !.calls = call.calls + 1]
    /\ UNCHANGED <<device, backend, gc>>

\* bp.solution_dict(), called on its own: the dictionary it returns is
\* not stored, self.min_bins is
SolutionDict ==
    /\ ~Counted
    /\ bp' = SetMinBins(bp)
    /\ call' = [NoBinCall EXCEPT !.op = "solution_dict",
                                 !.exc = solution_dict_exc(bp),
                                 !.calls = call.calls + 1]
    /\ UNCHANGED <<device, backend, gc>>

\* bp.docplex_model(), called on its own: the model it returns is not
\* stored, vars_pos and the constraint dictionaries are
DocplexModel ==
    /\ ~Counted
    /\ LET r == docplex_model(bp)
       IN  /\ bp' = r.self
           /\ call' = [NoBinCall EXCEPT !.op = "docplex_model", !.exc = r.exc,
                                        !.calls = call.calls + 1]
    /\ UNCHANGED <<device, backend, gc>>

\* bp.constraints_not_fulfilled(solution) on an instance that was built
\* again, for the all-zero and the all-one bitstring of length n_vars
CountOnRebuilt ==
    /\ ~Counted
    /\ \E b \in {0, 1} :
          LET bits == [n \in 1..bp.n_vars |-> b]
              r    == constraints_not_fulfilled(bp, bits)
          IN  call' = [NoBinCall EXCEPT !.op = "constraints_not_fulfilled",
                          !.exc = r.exc, !.ret = r.ret, !.bits = bits,
                          !.calls = call.calls + 1]
    /\ UNCHANGED <<device, backend, gc, bp>>

\* an instance constructed with non-empty weights
InitRand ==
    /\ device = IdleDevice
    /\ backend = NoBackend
    /\ gc = NoCall
    /\ \E w \in WeightLists, c \in Capacities, nb \in BinNumbers, s \in BOOLEAN :
          /\ Constructs(w, c, ListArg(<<>>), nb, s, "slack")
          /\ bp = BinPacking(w, c, ListArg(<<>>), nb, s, "slack")
    /\ call = NoBinCall

NextRand == RandomInstance \/ SolutionDict \/ DocplexModel \/ CountOnRebuilt

SpecRand == InitRand /\ [][NextRand]_vars


(***************************************************************************)
(* Properties of the backend, under SpecBackend.                           *)
(***************************************************************************)

LastOutcome == gc.outcomes[Len(gc.outcomes)]

FailedJobs == Cardinality({k \in 1..Len(gc.outcomes) : ~gc.outcomes[k].ok})

\* C1: get_counts retries failed jobs.  A job whose result cannot be read
\* is followed by another submission of the same circuit until a job
\* completes or five retries are used: every call ends on a completed job
\* or with five retries used, all its jobs carry the same circuit, and a
\* call whose first k jobs fail (1 <= k < 5) and whose next job completes
\* returns the counts of that job.
C1_RetriesFailedJobs ==
    gc.called =>
        /\ LastOutcome.ok \/ gc.no_of_job_retries >= max_job_retries
        /\ \A k \in 1..Len(gc.jobs) : gc.jobs[k] = gc.jobs[1]
        /\ (LastOutcome.ok /\ FailedJobs < max_job_retries) =>
              /\ gc.exc = "none"
              /\ gc.returned = LastOutcome.counts

\* C2: when the first job completes, get_counts has submitted exactly one
\* job (the circuit bound to the given params, shots = n_shots, the
\* device's bucket and folder), returns that job's measurement counts
\* unmodified and stores the same dictionary in measurement_outcomes.
C2_FirstJobCompletes ==
    (gc.called /\ gc.outcomes[1].ok) =>
        /\ Len(gc.jobs) = 1
        /\ gc.jobs[1] = [circuit |-> [bound_to |-> gc.params],
                         s3 |-> <<device.s3_bucket_name, device.folder_name>>,
                         shots |-> backend.n_shots]
        /\ gc.exc = "none"
        /\ gc.returned = gc.outcomes[1].counts
        /\ gc.outcomes_set
        /\ gc.measurement_outcomes = gc.outcomes[1].counts

\* a call whose only job completed with counts that a bit flip would change
C2_Witness ==
    /\ gc.called
    /\ gc.outcomes[1].ok
    /\ gc.returned = CountsA
    /\ flip_counts(CountsA) # CountsA

\* C3: check_connection returns True exactly when the credentials are
\* accepted and the device name is empty or names an available QPU, and it
\* leaves (provider_connected, qpu_connected) at (False, None) for rejected
\* credentials, (True, None) for an empty name, (True, True) for an
\* available name and (True, False) for an unknown one.
C3_CheckConnection ==
    device.returned # "None" =>
        /\ device.returned = "True" <=>
              (device.creds_ok /\ (device.device_name = ""
                                   \/ device.device_name \in AvailableQpus))
        /\ ~device.creds_ok =>
              (device.provider_connected = "False" /\ device.qpu_connected = "None")
        /\ (device.creds_ok /\ device.device_name = "") =>
              (device.provider_connected = "True" /\ device.qpu_connected = "None")
        /\ (device.creds_ok /\ device.device_name \in AvailableQpus) =>
              (device.provider_connected = "True" /\ device.qpu_connected = "True")
        /\ (device.creds_ok /\ device.device_name # ""
                /\ device.device_name \notin AvailableQpus) =>
              /\ device.provider_connected = "True"
              /\ device.qpu_connected = "False"
              /\ device.returned = "False"

\* a checked device with accepted credentials and no device name
C3_Witness ==
    /\ device.returned = "True"
    /\ device.device_name = ""
    /\ device.qpu_connected = "None"

\* C7: a get_counts call whose submissions keep failing raises
\* ConnectionError once five retries are used: a call none of whose jobs
\* completed ends in ConnectionError with no_of_job_retries at 5.
C7_FailingJobsRaiseConnectionError ==
    (gc.called /\ FailedJobs = Len(gc.outcomes)) =>
        /\ gc.exc = "ConnectionError"
        /\ gc.no_of_job_retries = max_job_retries

\* the flags of the device as the constructor saw them
SeenProvider == backend.device_at_init.provider_connected
SeenQpu == backend.device_at_init.qpu_connected

\* the constructor was called with inputs that take it to the flags of
\* line 81: the base constructors return and the prepended circuit, if any,
\* is no bigger than the register (the assertion of line 78 holds)
ReachedFlags ==
    /\ backend.state # "none"
    /\ backend.init_args.base_returns
    /\ \/ backend.init_args.prepend_qubits = 0
       \/ backend.init_args.n_qubits >= backend.init_args.prepend_qubits

ConnectionToAwsMade ==
    "Connection to AWS was made. Error connecting to the specified backend."

ErrorConnectingToAws == "Error connecting to AWS."

\* C8 as the specification words it: every construction on a device with
\* provider_connected true and qpu_connected False or None raises the
\* "Connection to AWS was made" exception, and every construction on a
\* device with provider_connected not true raises "Error connecting to
\* AWS.".
C8_FlagsDecideTheException ==
    /\ (backend.state # "none" /\ SeenProvider = "True"
            /\ SeenQpu \in {"False", "None"}) =>
          backend.exc = ConnectionToAwsMade
    /\ (backend.state # "none" /\ SeenProvider # "True") =>
          backend.exc = ErrorConnectingToAws

\* C8: construction succeeds (backend_qpu set to the device's backend,
\* parametric circuit built) only when provider_connected and
\* qpu_connected are both true, and backend_qpu is set in no other case.
\* A construction that reaches the flags (base constructors returned, the
\* prepend_state assertion held) sets backend_qpu when both are true, raises
\* the "Connection to AWS was made" exception when provider_connected is
\* true and qpu_connected False or None, and "Error connecting to AWS."
\* when provider_connected is not true; a construction that does not reach
\* them raises another exception.  Whenever construction raises one of the
\* two connection exceptions, or does not reach the flags, backend_qpu
\* stays unset and no circuit is built.  A device without a name whose
\* check_connection returned True is rejected.
C8_Construction ==
    /\ backend.state = "ok" =>
          /\ SeenProvider = "True" /\ SeenQpu = "True"
          /\ backend.backend_qpu = backend.device_at_init.device_name
          /\ backend.parametric_circuit = "built"
    /\ backend.backend_qpu # "unset" =>
          (SeenProvider = "True" /\ SeenQpu = "True")
    /\ backend.parametric_circuit = "built" => backend.state = "ok"
    /\ (ReachedFlags /\ SeenProvider = "True" /\ SeenQpu = "True") =>
          /\ backend.backend_qpu = backend.device_at_init.device_name
          /\ backend.exc \in {"none", "circuit_call_exception"}
    /\ (ReachedFlags /\ SeenProvider = "True" /\ SeenQpu \in {"False", "None"}) =>
          backend.exc = ConnectionToAwsMade
    /\ (ReachedFlags /\ SeenProvider # "True") =>
          backend.exc = ErrorConnectingToAws
    /\ (backend.state # "none" /\ ~ReachedFlags) =>
          /\ backend.state = "raised"
          /\ backend.exc \notin {ConnectionToAwsMade, ErrorConnectingToAws}
    /\ (backend.state = "raised" /\ backend.exc # "circuit_call_exception") =>
          (backend.backend_qpu = "unset" /\ backend.parametric_circuit = "unset")
    /\ (backend.state # "none" /\ backend.device_at_init.device_name = ""
            /\ backend.device_at_init.returned = "True") =>
          backend.state = "raised"

\* a backend constructed on a device without a name that passed its check
C8_Witness ==
    /\ backend.state = "raised"
    /\ backend.device_at_init.device_name = ""
    /\ backend.device_at_init.returned = "True"
    /\ SeenQpu = "None"
    /\ backend.exc = ConnectionToAwsMade


(***************************************************************************)
(* Properties of BinPacking.get_qubo_problem and find_penalty_terms, under *)
(* SpecBin.  Neither method changes the fields these formulas read of bp,  *)
(* except find_penalty_terms the penalty, kept in call.penalty_before.     *)
(***************************************************************************)

QuboCalled == call.op = "get_qubo_problem"

\* C4: for method 'slack' or 'unbalanced' and a penalty list of any length
\* get_qubo_problem returns the converter's Ising model of cplex_model; the
\* unbalanced encoding is used if and only if method = 'unbalanced'; a
\* non-empty penalty is passed whole as multipliers by 'slack', and as
\* multiplier penalty[0] and strength_ineq penalty[1:] by 'unbalanced'; an
\* empty penalty leaves both at the converter's defaults.
C4_QuboEncodingByMethod ==
    (QuboCalled /\ bp.method \in {"slack", "unbalanced"}
        /\ bp.penalty.kind = "list") =>
        /\ call.exc = "none"
        /\ call.qubo.model = bp.cplex_model
        /\ call.qubo.unbalanced_const <=> (bp.method = "unbalanced")
        /\ (bp.penalty.val # <<>> /\ bp.method = "slack") =>
              /\ call.qubo.multipliers = [kind |-> "list", val |-> bp.penalty.val]
              /\ call.qubo.strength_ineq.kind = "default"
        /\ (bp.penalty.val # <<>> /\ bp.method = "unbalanced") =>
              /\ call.qubo.multipliers =
                    [kind |-> "scalar", val |-> <<bp.penalty.val[1]>>]
              /\ call.qubo.strength_ineq =
                    [kind |-> "list",
                     val |-> SubSeq(bp.penalty.val, 2, Len(bp.penalty.val))]
        /\ bp.penalty.val = <<>> =>
              /\ call.qubo.multipliers.kind = "default"
              /\ call.qubo.strength_ineq.kind = "default"

\* the unbalanced encoding requested with three penalty terms
C4_Witness ==
    /\ QuboCalled
    /\ bp.method = "unbalanced"
    /\ bp.penalty.kind = "list"
    /\ Len(bp.penalty.val) = 3
    /\ call.exc = "none"
    /\ call.qubo.unbalanced_const

\* C5: with the penalty given as a single float, get_qubo_problem returns
\* the QUBO encoding using that penalty, for 'slack' and for 'unbalanced'.
C5_FloatPenaltyAccepted ==
    (QuboCalled /\ bp.penalty.kind = "float"
        /\ bp.method \in {"slack", "unbalanced"}) =>
        /\ call.exc = "none"
        /\ call.qubo.model = bp.cplex_model
        /\ call.qubo.multipliers.val = bp.penalty.val
        /\ call.qubo.unbalanced_const <=> (bp.method = "unbalanced")

AllWeightsEqual == \A i, j \in 1..Len(bp.weights) : bp.weights[i] = bp.weights[j]

HeaviestItem == CHOOSE w \in {bp.weights[i] : i \in 1..Len(bp.weights)} :
                    \A i \in 1..Len(bp.weights) : bp.weights[i] <= w

\* C6: find_penalty_terms raises ValueError when all weights are equal and
\* the maximum weight is at most 1, leaving self.penalty unchanged; when
\* all weights are equal and greater than 1 the weight range itself raises
\* nothing.
C6_NoWeightRangeRaises ==
    call.op = "find_penalty_terms" =>
        /\ (AllWeightsEqual /\ HeaviestItem <= 1) =>
              /\ call.exc = "ValueError"
              /\ bp.penalty = call.penalty_before
        /\ (AllWeightsEqual /\ HeaviestItem > 1) =>
              call.at \notin {"range", "random_instance"}


(***************************************************************************)
(* Properties of the solution dictionary and of constraints_not_fulfilled, *)
(* under SpecCnf.  The expected values are stated from the bin-packing     *)
(* problem itself: items 0 .. n_items-1, bins 0 .. n_bins-1.               *)
(***************************************************************************)

Items == 0..(bp.n_items - 1)
Bins == 0..(bp.n_bins - 1)
TotalWeight == SumSeq(bp.weights)

\* ceil(sum(weights) / weight_capacity): the least number of bins whose
\* joint capacity holds all the items
LeastBins ==
    CHOOSE m \in 0..TotalWeight :
        /\ m * bp.weight_capacity >= TotalWeight
        /\ \A k \in 0..(m - 1) : k * bp.weight_capacity < TotalWeight

SolutionValue(key) == DictGet(bp.solution, key)

\* C9: with simplifications off every y_j and x_i_j is None; with
\* simplifications on y_j = 1 exactly for the bins j < min_bins =
\* ceil(sum(weights) / weight_capacity), item 0 is fixed in bin 0 (x_0_0 = 1,
\* x_0_j = 0 for j >= 1) and every other entry is None.
C9_SolutionDict ==
    bp.built =>
        /\ \A j \in Bins : DictHas(bp.solution, YKey(j))
        /\ \A i \in Items, j \in Bins : DictHas(bp.solution, XKey(i, j))
        /\ ~bp.simplifications =>
              /\ \A j \in Bins : SolutionValue(YKey(j)) = None
              /\ \A i \in Items, j \in Bins : SolutionValue(XKey(i, j)) = None
        /\ bp.simplifications =>
              /\ bp.min_bins = LeastBins
              /\ \A j \in Bins :
                    SolutionValue(YKey(j)) = IF j < LeastBins THEN 1 ELSE None
              /\ \A j \in Bins :
                    SolutionValue(XKey(0, j)) = IF j = 0 THEN 1 ELSE 0
              /\ \A i \in Items \ {0}, j \in Bins :
                    SolutionValue(XKey(i, j)) = None

\* a simplified instance of two items with a bin left free
C9_Witness ==
    /\ bp.built
    /\ bp.simplifications
    /\ bp.n_items >= 2
    /\ LeastBins >= 1
    /\ LeastBins < bp.n_bins
    /\ SolutionValue(YKey(bp.n_bins - 1)) = None
    /\ SolutionValue(YKey(0)) = 1

\* The assignment a bitstring completes when simplifications are on: the
\* free variables are the y_j with j >= min_bins, then the x_i_j with
\* i >= 1, item by item.
FreeBins == IF bp.n_bins > LeastBins THEN bp.n_bins - LeastBins ELSE 0

BinOpen(j) == IF j < LeastBins THEN 1 ELSE call.bits[(j - LeastBins) + 1]

Placed(i, j) ==
    IF i = 0 THEN (IF j = 0 THEN 1 ELSE 0)
    ELSE call.bits[FreeBins + (i - 1) * bp.n_bins + j + 1]

RECURSIVE SumTo(_, _)
\* f[0] + ... + f[n - 1]
SumTo(f, n) == IF n = 0 THEN 0 ELSE f[n - 1] + SumTo(f, n - 1)

BinsHolding(i) == SumTo([j \in Bins |-> Placed(i, j)], bp.n_bins)

\* the weight in bin j of the items from item number first on
Load(j, first) ==
    SumTo([i \in Items |->
              IF i >= first THEN bp.weights[i + 1] * Placed(i, j) ELSE 0],
          bp.n_items)

\* the capacity of bin j left to the items i >= 1
Remaining(j) ==
    IF j = 0 THEN bp.weight_capacity - bp.weights[1]
    ELSE IF j < LeastBins THEN bp.weight_capacity
    ELSE bp.weight_capacity * BinOpen(j)

ItemsMisplaced == Cardinality({i \in Items \ {0} : BinsHolding(i) # 1})

BinsOverloaded == Cardinality({j \in Bins : Load(j, 1) > Remaining(j)})

\* every item in exactly one bin, no open bin above capacity, nothing in a
\* closed bin
FeasiblePacking ==
    /\ \A i \in Items : BinsHolding(i) = 1
    /\ \A j \in Bins : Load(j, 0) <= bp.weight_capacity * BinOpen(j)

CnfCalled == call.op = "constraints_not_fulfilled"

\* C10: with simplifications on, constraints_not_fulfilled returns the
\* number of items i >= 1 not placed in exactly one bin plus the number of
\* bins whose load of items i >= 1 exceeds the remaining capacity
\* (weight_capacity - weights[0] for bin 0, weight_capacity for bins
\* 1 <= j < min_bins, weight_capacity * y_j for bins j >= min_bins); it
\* returns 0 exactly when the completed assignment is a feasible packing.
C10_CountsViolatedConstraints ==
    (CnfCalled /\ bp.simplifications) =>
        /\ call.exc = "none"
        /\ call.ret = ItemsMisplaced + BinsOverloaded
        /\ (call.ret = 0) <=> FeasiblePacking

\* a bitstring that puts item 1 in two bins and overloads one of them
C10_Witness ==
    /\ CnfCalled
    /\ bp.simplifications
    /\ call.exc = "none"
    /\ ItemsMisplaced >= 1
    /\ BinsOverloaded >= 1
    /\ call.ret >= 2


\* The assignment a bitstring gives when simplifications are off: every
\* variable is free, the y_j first, then the x_i_j item by item.
BinOpenFree(j) == call.bits[j + 1]

PlacedFree(i, j) == call.bits[bp.n_bins + i * bp.n_bins + j + 1]

BinsHoldingFree(i) == SumTo([j \in Bins |-> PlacedFree(i, j)], bp.n_bins)

LoadFree(j) ==
    SumTo([i \in Items |-> bp.weights[i + 1] * PlacedFree(i, j)], bp.n_items)

ItemsMisplacedFree == Cardinality({i \in Items : BinsHoldingFree(i) # 1})

BinsOverloadedFree ==
    Cardinality({j \in Bins : LoadFree(j) > bp.weight_capacity * BinOpenFree(j)})

\* C11: with simplifications off, constraints_not_fulfilled returns, for
\* every bitstring of length n_vars and without raising, the number of
\* items not placed in exactly one bin plus the number of bins whose total
\* item weight exceeds weight_capacity * y_j.
C11_CountsWithoutSimplifications ==
    (CnfCalled /\ ~bp.simplifications) =>
        /\ call.exc = "none"
        /\ call.ret = ItemsMisplacedFree + BinsOverloadedFree

PenaltyTermsCalled == call.op = "find_penalty_terms"

\* the tuning objective was evaluated on a vector of the wrong length
WrongLengthEvaluated ==
    /\ PenaltyTermsCalled
    /\ call.n_mdls >= 1
    /\ call.evaluated > 0
    /\ \/ bp.method = "unbalanced" /\ call.evaluated # 3
       \/ bp.method = "slack" /\ call.evaluated # 1

\* find_penalty_terms called with a one-term penalty0, the default, on an
\* instance of method 'unbalanced', with at least one tuning problem
DefaultPenaltyUnbalanced ==
    /\ PenaltyTermsCalled
    /\ call.n_mdls >= 1
    /\ bp.method = "unbalanced"
    /\ Len(call.penalty0) = 1

\* C12 as the specification words it: the one-term default penalty0 is
\* rejected under method 'unbalanced', that is, find_penalty_terms raises
\* and self.penalty keeps its value.
C12_DefaultPenaltyRejected ==
    DefaultPenaltyUnbalanced =>
        /\ call.exc # "none"
        /\ bp.penalty = call.penalty_before

\* C12: during find_penalty_terms with n_mdls >= 1, an evaluation of the
\* tuning objective on a penalty vector of the wrong length (not 3 terms
\* under 'unbalanced', not 1 term under 'slack') raises ValueError before
\* any Ising model is built; a call with the one-term default penalty0
\* under 'unbalanced' returns only if the minimiser evaluated three-term
\* vectors; and self.penalty is left as it was whenever the call raises.
C12_WrongLengthRejected ==
    /\ WrongLengthEvaluated =>
          /\ call.exc = "ValueError"
          /\ call.at = "get_penalty"
          /\ ~call.ising_built
    /\ (DefaultPenaltyUnbalanced /\ call.exc = "none") => call.evaluated = 3
    /\ (PenaltyTermsCalled /\ call.exc # "none") =>
          bp.penalty = call.penalty_before

\* a one-term penalty0 evaluated and rejected under 'unbalanced'
C12_Witness ==
    /\ WrongLengthEvaluated
    /\ bp.method = "unbalanced"
    /\ Len(call.penalty0) = 1
    /\ call.evaluated = 1
    /\ call.exc = "ValueError"
    /\ bp.penalty = call.penalty_before
    /\ bp.penalty # ListArg(<<2>>)

\* C13: classical_solution raises ValueError whenever the solver does not
\* produce a valid solution for the model (no solution object, or one
\* that is not valid), for either value of string and any number of free
\* variables, and returns no assignment then.
C13_NoSolutionRaisesValueError ==
    (call.op = "classical_solution" /\ call.solved # "ok") =>
        /\ call.exc = "ValueError"
        /\ call.returned = "none"

\* the keys of a sequence of keys, as a set
KeySet(ks) == {ks[n] : n \in 1..Len(ks)}

\* C14: after construction with non-empty weights and any sequence of
\* random_instance calls, raising ones included, n_items is the number of
\* weights and the keys of the solution dictionary are exactly y_j for
\* every bin j and x_i_j for every item i and bin j.
C14_SizesAndSolutionKeysAgree ==
    /\ bp.n_items = Len(bp.weights)
    /\ KeySet(DictKeys(bp.solution))
         = KeySet(YKeys(bp.n_bins)) \cup KeySet(XKeys(bp.n_items, bp.n_bins))

====
